---- MODULE Spec2Model ----
(***************************************************************************)
(* A model of the streaming lexer of src/parser/lexer.rs.                  *)
(*                                                                         *)
(* The lexer state is the struct Lexer: the character iterator (modelled   *)
(* as the input and the number of characters already pulled from it), the  *)
(* two-slot cursor, the indent level, and the position counters seek, line *)
(* and column.  Lexer::new is Init; the one public operation, next_token,  *)
(* is the action NextToken.  The private scanners are operators on a       *)
(* record of the lexer's fields, written loop for loop after the source.   *)
(* A character is a one-character string; a payload is a sequence of       *)
(* characters.  The reader never fails in the model (no NotUtf8, IoError). *)
(* out is the history of the results returned to the caller and shifts     *)
(* counts the shift operations performed since construction.               *)
(***************************************************************************)
EXTENDS Integers, Sequences, FiniteSets, TLC

VARIABLES input, iter, cursor, indent, seek, line, column, out, panicked,
          shifts

vars ==
    <<input, iter, cursor, indent, seek, line, column, out, panicked, shifts>>

\* Option::None in a cursor slot.
None == "None"

----------------------------------------------------------------------------
\* Character classes.

is_whitespace(w) == w \in {" ", "\t"}

is_digit(d) == d \in {"0", "1", "2", "3", "4", "5", "6", "7", "8", "9"}

is_hex_digit(d) ==
    \/ d \in {"a", "b", "c", "d", "e", "f", "A", "B", "C", "D", "E", "F"}
    \/ is_digit(d)

is_letter(l) ==
    l \in {"a", "b", "c", "d", "e", "f", "g", "h", "i", "j", "k", "l", "m",
           "n", "o", "p", "q", "r", "s", "t", "u", "v", "w", "x", "y", "z",
           "A", "B", "C", "D", "E", "F", "G", "H", "I", "J", "K", "L", "M",
           "N", "O", "P", "Q", "R", "S", "T", "U", "V", "W", "X", "Y", "Z",
           "_"}

is_special(s) ==
    s \in {"!", "\"", "#", "$", "%", "&",
           "*", "+", ",", "-", ".", "/",
           ":", ";", "<", "=", ">", "?", "@",
           "\\", "^", "_", "|", "~"}

is_keyword(kw) ==
    kw \in { <<"d", "a", "t", "a">>,
             <<"f", "o", "r", "a", "l", "l">>,
             <<"c", "a", "s", "e">>,
             <<"w", "h", "e", "r", "e">>,
             <<"i", "f">>,
             <<"e", "l", "s", "e">>,
             <<"i", "n", "f", "i", "x">>,
             <<"i", "n", "f", "i", "x", "l">>,
             <<"i", "n", "f", "i", "x", "r">> }

----------------------------------------------------------------------------
\* Results of a call: Ok(Token), Err(LexerError), or a panic (unimplemented!).

Token(lexeme, text, n, from, to) ==
    [kind |-> "Token", lexeme |-> lexeme, text |-> text, n |-> n,
     from |-> from, to |-> to]

Err(error, from, to) ==
    [kind |-> "Err", lexeme |-> error, text |-> <<>>, n |-> 0,
     from |-> from, to |-> to]

Unimplemented(lx) ==
    [kind |-> "Panic", lexeme |-> "unimplemented", text |-> <<>>, n |-> 0,
     from |-> <<lx.seek, lx.line, lx.column>>,
     to |-> <<lx.seek, lx.line, lx.column>>]

\* Option<Token>::None of skip_whitespace.
NoToken == [kind |-> "NoToken"]

----------------------------------------------------------------------------
\* The cursor and the position tracker.

\* char_iter.next(): the next character of the input, None once exhausted.
IterNext(lx) == IF lx.iter < Len(input) THEN input[lx.iter + 1] ELSE None

\* shift that counts the column on over a `\n`.
shift_over_newline(lx) ==
    [lx EXCEPT
        !.iter   = IF lx.iter < Len(input) THEN lx.iter + 1 ELSE lx.iter,
        !.column = lx.column + 1,
        !.line   = IF lx.cursor[1] = "\n" THEN lx.line + 1 ELSE lx.line,
        !.seek   = lx.seek + 1,
        !.cursor = <<lx.cursor[2], IterNext(lx)>>,
        !.shifts = lx.shifts + 1]

shift(lx) ==
    [lx EXCEPT
        !.iter   = IF lx.iter < Len(input) THEN lx.iter + 1 ELSE lx.iter,
        !.column = IF lx.cursor[1] = "\n" THEN 0 ELSE lx.column + 1,
        !.line   = IF lx.cursor[1] = "\n" THEN lx.line + 1 ELSE lx.line,
        !.seek   = lx.seek + 1,
        !.cursor = <<lx.cursor[2], IterNext(lx)>>,
        !.shifts = lx.shifts + 1]

\* upper_bound that steps two characters past the cursor.
upper_bound_far(lx) == <<lx.seek + 2, lx.line, lx.column + 2>>

upper_bound(lx) == <<lx.seek + 1, lx.line, lx.column + 1>>

\* cursor_point with a column counted from 1.
cursor_point_from_one(lx) == <<lx.seek, lx.line, lx.column + 1>>

cursor_point(lx) == <<lx.seek, lx.line, lx.column>>

\* Position::point, at the cursor.
cursor_position_to(lx) == <<lx.seek + 1, lx.line, lx.column + 1>>

point_token(lx, lex) ==
    Token(lex, <<>>, 0, cursor_point(lx), cursor_position_to(lx))

----------------------------------------------------------------------------
\* The layout tracker.

\* The loop of skip_whitespace: shifts over spaces and tabs, counting them.
RECURSIVE SkipLoop(_, _)
SkipLoop(lx, count) ==
    IF is_whitespace(lx.cursor[1])
    THEN SkipLoop(shift(lx), count + 1)
    ELSE [lx |-> lx, indent |-> count]

\* The blank-line test that also takes the end of input for a blank line.
NotBlankLineNorEnd(lx) == lx.cursor[1] \notin {"\n", None}

\* The blank-line test left out.
NotBlankLineAlways(lx) == TRUE

\* `self.cursor.0 != Some('\n')`: the line holds something besides blanks.
NotBlankLine(lx) == lx.cursor[1] # "\n"

\* The payload of Indent taken as the whole width.
IndentByWidth(w, level) == w

\* The payload of Indent: `indent - self.indent`.
IndentBy(w, level) == w - level

\* The payload of Unindent: `self.indent - indent`.
UnindentBy(w, level) == level - w

\* The recorded level left as it was.
RecordIndentNever(lx, w) == lx

\* The level recorded only when it rises.
RecordIndentOnRise(lx, w) == IF w > lx.indent THEN [lx EXCEPT !.indent = w] ELSE lx

\* `self.indent = indent`.
RecordIndent(lx, w) == [lx EXCEPT !.indent = w]

skip_whitespace(lx) ==
    LET is_line_start == lx.column = 0
        start_pos     == cursor_point(lx)
        run           == SkipLoop(lx, 0)
        l1            == run.lx
        w             == run.indent
    IN  IF is_line_start /\ NotBlankLine(l1)
        THEN [lx  |-> RecordIndent(l1, w),
              res |-> IF w > l1.indent
                      THEN Token("Indent", <<>>, IndentBy(w, l1.indent),
                                 start_pos, cursor_point(l1))
                      ELSE IF w < l1.indent
                      THEN Token("Unindent", <<>>, UnindentBy(w, l1.indent),
                                 start_pos, cursor_point(l1))
                      ELSE NoToken]
        ELSE [lx |-> l1, res |-> NoToken]

----------------------------------------------------------------------------
\* The token recognizers.  Each returns the lexer after the scanner and the
\* Result it produced; the dispatcher performs the final shift.

\* The loop of read_word: pushes the current character, then shifts while
\* the lookahead is a letter or a digit.
RECURSIVE ReadWordLoop(_, _)
ReadWordLoop(lx, word) ==
    LET eow   == ~(is_letter(lx.cursor[2]) \/ is_digit(lx.cursor[2]))
        word1 == Append(word, lx.cursor[1])
    IN  IF eow THEN [lx |-> lx, word |-> word1]
        ELSE ReadWordLoop(shift(lx), word1)

read_word(lx) == ReadWordLoop(lx, <<>>)

word(lx) ==
    LET start_pos == cursor_point(lx)
        rw        == read_word(lx)
        is_mword  == rw.lx.cursor[2] = "["
        l1        == IF is_mword THEN shift(rw.lx) ELSE rw.lx
        lexeme    == IF rw.word = <<"_">> THEN "Underscore"
                     ELSE IF is_mword THEN "Mword"
                     ELSE IF is_keyword(rw.word) THEN "Keyword"
                     ELSE "Word"
        text      == IF lexeme = "Underscore" THEN <<>> ELSE rw.word
    IN  [lx  |-> l1,
         res |-> Token(lexeme, text, 0, start_pos, upper_bound(l1))]

\* The `while` loop of the float arm: pushes digits while the lookahead is
\* a digit.
RECURSIVE FloatLoop(_, _)
FloatLoop(lx, thing) ==
    IF is_digit(lx.cursor[2])
    THEN FloatLoop(shift(lx), Append(thing, lx.cursor[1]))
    ELSE [lx |-> lx, thing |-> thing]

\* The `.` arm of integer_or_word.
FloatArm(lx, thing, start_pos) ==
    LET thing1 == Append(thing, ".")
        l1     == shift(lx)
    IN  IF ~is_digit(l1.cursor[1])
        THEN [lx  |-> l1,
              res |-> Err("InvalidInteger", start_pos, upper_bound(l1))]
        ELSE LET fl == FloatLoop(l1, thing1)
             IN  [lx  |-> fl.lx,
                  res |-> Token("Float", fl.thing, 0,
                                start_pos, upper_bound(fl.lx))]

\* The letter arm of integer_or_word.
WordArm(lx, thing, start_pos) ==
    LET rw     == read_word(lx)
        thing1 == thing \o rw.word
        mword  == rw.lx.cursor[2] = "["
        l1     == IF mword THEN shift(rw.lx) ELSE rw.lx
    IN  [lx  |-> l1,
         res |-> Token(IF mword THEN "Mword" ELSE "Word", thing1, 0,
                       start_pos, upper_bound(l1))]

\* The loop of integer_or_word.
RECURSIVE IntegerLoop(_, _, _)
IntegerLoop(lx, thing, start_pos) ==
    LET thing1 == Append(thing, lx.cursor[1])
        la     == lx.cursor[2]
    IN  IF is_digit(la) THEN IntegerLoop(shift(lx), thing1, start_pos)
        ELSE IF is_letter(la) THEN WordArm(lx, thing1, start_pos)
        ELSE IF la = "." THEN FloatArm(lx, thing1, start_pos)
        ELSE [lx  |-> lx,
              res |-> Token("Integer", thing1, 0,
                            start_pos, upper_bound(lx))]

integer_or_word(lx) == IntegerLoop(lx, <<>>, cursor_point(lx))

\* The loop of comment: accumulates up to `\n` or the end of input.
RECURSIVE CommentLoop(_, _)
CommentLoop(lx, text) ==
    IF lx.cursor[1] \in {"\n", None}
    THEN [lx |-> lx, text |-> text]
    ELSE CommentLoop(shift(lx), Append(text, lx.cursor[1]))

comment(lx) ==
    LET start_pos == cursor_point(lx)
        l2        == shift(shift(lx))
        lex       == IF l2.cursor[1] = "." THEN "DocComment"
                     ELSE IF l2.cursor[1] = "^" THEN "TopDocComment"
                     ELSE "Comment"
        l3        == IF l2.cursor[1] \in {".", "^"} THEN shift(l2) ELSE l2
        cl        == CommentLoop(l3, <<>>)
    IN  [lx  |-> cl.lx,
         res |-> Token(lex, cl.text, 0, start_pos, upper_bound(cl.lx))]

\* The loop of string.
RECURSIVE StringLoop(_, _, _)
StringLoop(lx, str, start_pos) ==
    LET c == lx.cursor
    IN  IF c = <<"\\", "\"">>
        THEN StringLoop(shift(shift(lx)), Append(str, "\""), start_pos)
        ELSE IF c = <<"\\", "\\">>
        THEN StringLoop(shift(shift(lx)), Append(str, "\\"), start_pos)
        ELSE IF c[1] = "\""
        THEN [lx  |-> lx,
              res |-> Token("String", str, 0, start_pos, upper_bound(lx))]
        ELSE IF c[1] # None
        THEN StringLoop(shift(lx), Append(str, c[1]), start_pos)
        ELSE [lx  |-> lx,
              res |-> Err("UnexpectedEof",
                          cursor_point(lx), cursor_position_to(lx))]

\* string that does not step over the opening quote.
string_unshifted(lx) == StringLoop(lx, <<>>, cursor_point(lx))

string(lx) == StringLoop(shift(lx), <<>>, cursor_point(lx))

char(lx) == [lx |-> lx, res |-> Unimplemented(lx)]

\* The loop of hex_integer.
RECURSIVE HexLoop(_, _, _)
HexLoop(lx, number, start_pos) ==
    LET eon == lx.cursor[2] \in {" ", "\t", "\n", None}
    IN  IF ~is_hex_digit(lx.cursor[1])
        THEN [lx |-> lx, res |-> Unimplemented(lx)]
        ELSE LET number1 == Append(number, lx.cursor[1])
             IN  IF eon
                 THEN [lx  |-> lx,
                       res |-> Token("Integer", number1, 0,
                                     start_pos, upper_bound(lx))]
                 ELSE HexLoop(shift(lx), number1, start_pos)

hex_integer(lx) ==
    HexLoop(shift(shift(shift(lx))), <<"0", "x">>, cursor_point(lx))

t_bracket(lx) ==
    [lx  |-> shift(lx),
     res |-> Token("Tbracket", <<>>, 0,
                   <<lx.seek, lx.line, lx.column>>,
                   <<lx.seek + 1, lx.line, lx.column + 1>>)]

\* The loop of operator.
RECURSIVE OperatorLoop(_, _)
OperatorLoop(lx, op) ==
    LET eop == ~is_special(lx.cursor[2])
        op1 == Append(op, lx.cursor[1])
    IN  IF eop THEN [lx |-> lx, op |-> op1]
        ELSE OperatorLoop(shift(lx), op1)

operator(lx) ==
    LET start_pos == cursor_point(lx)
        ol        == OperatorLoop(lx, <<>>)
        lexeme    == IF ol.op = <<",">> THEN "Comma"
                     ELSE IF ol.op = <<".">> THEN "Dot"
                     ELSE IF ol.op = <<"-", ">">> THEN "Rarrow"
                     ELSE IF ol.op = <<":">> THEN "Colon"
                     ELSE IF ol.op = <<"|">> THEN "Bar"
                     ELSE IF ol.op = <<"=">> THEN "Equals"
                     ELSE "Operator"
    IN  [lx  |-> ol.lx,
         res |-> Token(lexeme, IF lexeme = "Operator" THEN ol.op ELSE <<>>,
                       0, start_pos, upper_bound(ol.lx))]

----------------------------------------------------------------------------
\* Token dispatch.

\* A single-character token at the cursor; the dispatcher shifts after it.
Point(lx, lex) == [lx |-> lx, res |-> point_token(lx, lex)]

\* The `match c` of next_token, arm by arm in the order of the source.
Dispatch(lx) ==
    LET c  == lx.cursor[1]
        la == lx.cursor[2]
    IN  IF c = "-" /\ la = "-" THEN comment(lx)
        ELSE IF c = "[" THEN Point(lx, "Lbracket")
        ELSE IF c = "T" /\ la = "[" THEN t_bracket(lx)
        ELSE IF c = "]" THEN Point(lx, "Rbracket")
        ELSE IF c = "{" THEN Point(lx, "Lbrace")
        ELSE IF c = "}" THEN Point(lx, "Rbrace")
        ELSE IF c = "(" THEN Point(lx, "Lparren")
        ELSE IF c = ")" THEN Point(lx, "Rparren")
        ELSE IF c = "\n" THEN Point(lx, "Newline")
        ELSE IF c = "\"" THEN string(lx)
        ELSE IF c = "'" THEN char(lx)
        ELSE IF c = "0" /\ la = "x" THEN hex_integer(lx)
        ELSE IF is_special(c) THEN operator(lx)
        ELSE IF is_letter(c) THEN word(lx)
        ELSE IF is_digit(c) THEN integer_or_word(lx)
        ELSE [lx  |-> lx,
              res |-> Err("MysteriousChar",
                          cursor_point(lx), cursor_position_to(lx))]

\* The Eof arm followed by a shift, like the other arms.
EofTokenShifted(lx) == [lx |-> shift(lx), res |-> point_token(lx, "Eof")]

\* The Eof arm: a point token, returned without shifting.
EofToken(lx) == [lx |-> lx, res |-> point_token(lx, "Eof")]

\* The dispatcher without its final shift.
AfterScanNoShift(r) == r

\* The dispatcher shifting after every result, MysteriousChar too.
AfterScanAlways(r) ==
    IF r.res.kind = "Panic" THEN r ELSE [lx |-> shift(r.lx), res |-> r.res]

\* What the dispatcher does after the scanner returned: MysteriousChar is
\* returned at once, a panic unwinds, everything else is followed by a shift.
AfterScan(r) ==
    IF r.res.kind = "Panic" \/ r.res.lexeme = "MysteriousChar"
    THEN r
    ELSE [lx |-> shift(r.lx), res |-> r.res]

next_token(lx) ==
    LET sw == skip_whitespace(lx)
    IN  IF sw.res # NoToken THEN sw
        ELSE IF sw.lx.cursor[1] = None THEN EofToken(sw.lx)
        ELSE AfterScan(Dispatch(sw.lx))

----------------------------------------------------------------------------
\* The state machine.

\* The fields of the Lexer struct as one record.
Lexer ==
    [iter |-> iter, cursor |-> cursor, indent |-> indent,
     seek |-> seek, line |-> line, column |-> column, shifts |-> shifts]

\* Bounds of the model.
MaxLen == 5
MaxAfter == 2

\* All character sequences over an alphabet, up to a length.
Inputs(alphabet, n) == UNION { [1..k -> alphabet] : k \in 0..n }

\* Lexer::new over an input: the cursor holds the first two characters.
New(in) ==
    /\ input = in
    /\ iter = IF Len(in) < 2 THEN Len(in) ELSE 2
    /\ cursor = << IF Len(in) >= 1 THEN in[1] ELSE None,
                   IF Len(in) >= 2 THEN in[2] ELSE None >>
    /\ indent = 0
    /\ seek = 0
    /\ line = 0
    /\ column = 0
    /\ out = <<>>
    /\ panicked = FALSE
    /\ shifts = 0

\* Results that end a token stream.
IsFinal(r) == r.kind # "Token" \/ r.lexeme = "Eof"

Finals(s) == Cardinality({ i \in 1..Len(s) : IsFinal(s[i]) })

\* One call of next_token by the caller.  A caller may go on calling after
\* Eof or an error; the model follows it for MaxAfter such results.
NextToken ==
    /\ ~panicked
    /\ Finals(out) < MaxAfter
    /\ LET r == next_token(Lexer)
       IN  /\ iter' = r.lx.iter
           /\ cursor' = r.lx.cursor
           /\ indent' = r.lx.indent
           /\ seek' = r.lx.seek
           /\ line' = r.lx.line
           /\ column' = r.lx.column
           /\ out' = Append(out, r.res)
           /\ panicked' = (r.res.kind = "Panic")
           /\ shifts' = r.lx.shifts
    /\ UNCHANGED input

Next == NextToken

\* The general specification: inputs that reach comments, strings, numbers,
\* words and brackets.
Alphabet == {" ", "\n", "a", "-", "\"", "1", ".", "["}

Init == \E in \in Inputs(Alphabet, MaxLen) : New(in)

Spec == Init /\ [][Next]_vars

\* The layout specification: longer inputs over blanks, newlines, a word
\* character and the comment marker (no string literals).
MaxLenLayout == 6

AlphabetLayout == {" ", "\t", "\n", "a", "-"}

InitLayout == \E in \in Inputs(AlphabetLayout, MaxLenLayout) : New(in)

SpecLayout == InitLayout /\ [][Next]_vars

\* The blank-line specification: blanks, newlines, a word character and
\* the string quote.
MaxLenBlank == 6

AlphabetBlank == {" ", "\n", "a", "\""}

InitBlank == \E in \in Inputs(AlphabetBlank, MaxLenBlank) : New(in)

SpecBlank == InitBlank /\ [][Next]_vars

\* The hex specification: the `0x` prefix, hex digits, a letter that is no
\* hex digit, and the terminators.
MaxLenHex == 5

AlphabetHex == {"0", "x", "B", "1", " ", "\n"}

InitHex == \E in \in Inputs(AlphabetHex, MaxLenHex) : New(in)

SpecHex == InitHex /\ [][Next]_vars

\* The word specification: the underscore, the letters of the keyword `if`,
\* `T`, a digit, the bracket and the blank.
MaxLenWord == 5

AlphabetWord == {"_", "i", "f", "T", "1", "[", " "}

InitWord == \E in \in Inputs(AlphabetWord, MaxLenWord) : New(in)

SpecWord == InitWord /\ [][Next]_vars

\* The string specification: the quote, the backslash, a plain character
\* and the newline.
MaxLenString == 6

AlphabetString == {"\"", "\\", "a", "\n"}

InitString == \E in \in Inputs(AlphabetString, MaxLenString) : New(in)

SpecString == InitString /\ [][Next]_vars

\* The position specification: words and the keyword `if`, string
\* literals with escapes, blanks and newlines.
MaxLenPosition == 5

AlphabetPosition == {"i", "f", "\"", "\\", " ", "\n"}

InitPosition == \E in \in Inputs(AlphabetPosition, MaxLenPosition) : New(in)

SpecPosition == InitPosition /\ [][Next]_vars

\* The error specification: a character of no class (the carriage return)
\* among blanks, newlines and a word character.
MaxLenMystery == 5

AlphabetMystery == {"\r", "a", " ", "\n"}

InitMystery == \E in \in Inputs(AlphabetMystery, MaxLenMystery) : New(in)

SpecMystery == InitMystery /\ [][Next]_vars

\* The shift specification: the lexer state after every number of shift
\* operations, the scanners' own steps, up to MaxPast shifts past the end
\* of the input.
MaxLenShift == 5

MaxPast == 1

AlphabetShift == {"a", " ", "\n"}

InitShift == \E in \in Inputs(AlphabetShift, MaxLenShift) : New(in)

\* One shift operation.
ShiftStep ==
    /\ shifts < Len(input) + MaxPast
    /\ LET lx == shift(Lexer)
       IN  /\ iter' = lx.iter
           /\ cursor' = lx.cursor
           /\ seek' = lx.seek
           /\ line' = lx.line
           /\ column' = lx.column
           /\ shifts' = lx.shifts
    /\ UNCHANGED <<input, indent, out, panicked>>

NextShift == ShiftStep

SpecShift == InitShift /\ [][NextShift]_vars

----------------------------------------------------------------------------
\* Vocabulary of the properties.

Last(s) == s[Len(s)]

\* The input character at a 0-based absolute offset.
Ch(i) == IF i >= 0 /\ i < Len(input) THEN input[i + 1] ELSE None

IsToken(r) == r.kind = "Token"

IsLayout(r) == IsToken(r) /\ r.lexeme \in {"Indent", "Unindent"}

IsEof(r) == IsToken(r) /\ r.lexeme = "Eof"

IsNewline(r) == IsToken(r) /\ r.lexeme = "Newline"

IsComment(r) ==
    IsToken(r) /\ r.lexeme \in {"Comment", "DocComment", "TopDocComment"}

\* A token that is neither Indent nor Unindent.
IsPlain(r) == IsToken(r) /\ ~IsLayout(r)

\* The offset of the first character of the line that holds offset i.
LineStart(i) ==
    LET nls == { j \in 0..(i - 1) : Ch(j) = "\n" }
    IN  IF nls = {} THEN 0
        ELSE 1 + CHOOSE j \in nls : \A k \in nls : k <= j

\* Every character of the offsets a..b-1 is a space or a tab.
Blanks(a, b) == \A j \in a..(b - 1) : is_whitespace(Ch(j))

\* The first index after k of a result that is not a layout token, or 0.
NextPlain(k) ==
    LET later == { j \in (k + 1)..Len(out) : ~IsLayout(out[j]) }
    IN  IF later = {} THEN 0
        ELSE CHOOSE j \in later : \A m \in later : j <= m

\* The index of the first Eof, error or panic of the stream, or 0.
FirstFinal ==
    LET fs == { j \in 1..Len(out) : IsFinal(out[j]) }
    IN  IF fs = {} THEN 0
        ELSE CHOOSE j \in fs : \A m \in fs : j <= m

\* Sum of the Indent magnitudes minus sum of the Unindent magnitudes of the
\* first k results.
RECURSIVE Balance(_)
Balance(k) ==
    IF k = 0 THEN 0
    ELSE Balance(k - 1)
         + (IF ~IsToken(out[k]) THEN 0
            ELSE IF out[k].lexeme = "Indent" THEN out[k].n
            ELSE IF out[k].lexeme = "Unindent" THEN 0 - out[k].n
            ELSE 0)

----------------------------------------------------------------------------
\* C1: a comment that is terminated by `\n` leaves that `\n` in the input:
\* the next non-layout result after the comment token is the Newline token
\* of that `\n`.
C1_CommentKeepsNewline ==
    \A k \in 1..Len(out) :
        (/\ IsComment(out[k])
         /\ Ch(out[k].to[1] - 1) = "\n"
         /\ NextPlain(k) # 0)
        => /\ IsNewline(out[NextPlain(k)])
           /\ out[NextPlain(k)].from[1] = out[k].to[1] - 1

\* C2: a Newline token is emitted at offset i exactly for the `\n`
\* characters of the input: every Newline token sits on a `\n`, and no `\n`
\* is consumed without a Newline token at its offset.
C2_NewlineIffLinefeed ==
    /\ \A k \in 1..Len(out) :
           IsNewline(out[k]) => Ch(out[k].from[1]) = "\n"
    /\ \A i \in 0..(Len(input) - 1) :
           (Ch(i) = "\n" /\ i < seek)
           => \E k \in 1..Len(out) :
                  IsNewline(out[k]) /\ out[k].from[1] = i

\* The call that reaches the end of input at column 0 with a recorded
\* level k > 0 returns Unindent(k) and records level 0, and the call after
\* that zero-width Unindent at the end of input returns Eof.
FinalUnindent ==
    /\ (cursor[1] = None /\ column = 0 /\ indent > 0)
       => /\ Last(out')
              = Token("Unindent", <<>>, indent, cursor_point(Lexer),
                      cursor_point(Lexer))
          /\ indent' = 0
    /\ (/\ out # <<>>
        /\ IsLayout(Last(out))
        /\ cursor[1] = None)
       => IsEof(Last(out'))

\* C3 as stated: when the first Eof is returned at column 0 and the level
\* recorded when the end of input was reached is k > 0, the token right
\* before it is Unindent(k) and the recorded level is 0; when it is returned
\* at a column other than 0, the token right before it is no layout token.
C3_EofLayoutAsStated ==
    (/\ Len(out) >= 2
     /\ FirstFinal = Len(out)
     /\ IsEof(Last(out)))
    => /\ (column = 0 /\ Balance(Len(out) - 2) > 0)
          => /\ out[Len(out) - 1].lexeme = "Unindent"
             /\ out[Len(out) - 1].n = Balance(Len(out) - 2)
             /\ indent = 0
       /\ column # 0 => ~IsLayout(out[Len(out) - 1])

\* C3 amended: Unindent(k) right before the first Eof when the input ends
\* at column 0 with level k > 0; and a call that begins at a column other
\* than 0 with nothing but spaces and tabs left in the input returns Eof.
C3_EofLayout ==
    [][ /\ FinalUnindent
        /\ (column # 0 /\ Blanks(seek, Len(input)))
           => IsEof(Last(out')) ]_vars

\* The input ended right after a `\n` at a level k > 0: Unindent(k), Eof.
C3_Witness ==
    /\ Len(out) >= 3
    /\ IsEof(Last(out))
    /\ out[Len(out) - 1].lexeme = "Unindent"
    /\ out[Len(out) - 1].n > 0
    /\ Len(input) > 0
    /\ Last(input) = "\n"
    /\ column = 0
    /\ indent = 0

\* C4: every Indent(n) or Unindent(n) is returned by a call that began at
\* column 0 on a run of w spaces/tabs whose next character is not `\n`, with
\* w different from the level L recorded before the call, n > 0, n = w - L
\* for Indent and n = L - w for Unindent, and the level recorded after the
\* call is w.
C4_LayoutTokenContract ==
    [][ IsLayout(Last(out'))
        => LET t == Last(out')
               w == t.to[1] - t.from[1]
               L == indent
           IN  /\ column = 0
               /\ t.from = <<seek, line, 0>>
               /\ t.to = <<seek + w, line, w>>
               /\ w >= 0
               /\ Blanks(seek, seek + w)
               /\ ~is_whitespace(Ch(seek + w))
               /\ Ch(seek + w) # "\n"
               /\ w # L
               /\ t.n > 0
               /\ (t.lexeme = "Indent" => w > L /\ t.n = w - L)
               /\ (t.lexeme = "Unindent" => w < L /\ t.n = L - w)
               /\ indent' = w ]_vars

\* An Unindent to a level that is not 0, after an Indent.
C4_Witness ==
    /\ Len(out) >= 2
    /\ Last(out).lexeme = "Unindent"
    /\ Last(out).to[1] > Last(out).from[1]
    /\ \E k \in 1..Len(out) : IsToken(out[k]) /\ out[k].lexeme = "Indent"
    /\ indent > 0

\* Result k was dispatched on the first non-blank character of a line that
\* is not blank.
StartsLine(k) ==
    /\ out[k].kind # "Panic"
    /\ ~IsLayout(out[k])
    /\ ~IsEof(out[k])
    /\ out[k].lexeme # "UnexpectedEof"
    /\ Ch(out[k].from[1]) \notin {"\n", None}
    /\ Blanks(LineStart(out[k].from[1]), out[k].from[1])

\* C5: the Indent magnitudes minus the Unindent magnitudes returned so far
\* equal the recorded indent level; when a token is dispatched on the first
\* non-blank character of a non-blank line, they equal the number of
\* leading spaces/tabs of that line; and so at Eof they equal the recorded
\* level.
C5_IndentBalance ==
    /\ Balance(Len(out)) = indent
    /\ \A k \in 1..Len(out) :
           StartsLine(k)
           => Balance(k) = out[k].from[1] - LineStart(out[k].from[1])

\* A token dispatched at the head of an indented line after the level went
\* up and down.
C5_Witness ==
    /\ \E k \in 1..Len(out) :
           /\ StartsLine(k)
           /\ out[k].from[1] - LineStart(out[k].from[1]) > 0
           /\ \E i, j \in 1..(k - 1) :
                  /\ i < j
                  /\ IsToken(out[i]) /\ out[i].lexeme = "Indent"
                  /\ IsToken(out[j]) /\ out[j].lexeme = "Unindent"
    /\ indent > 0

\* Offset e holds the `\n` of a blank line: only spaces and tabs lie between
\* the start of its line and e.
BlankLineAt(e) == Ch(e) = "\n" /\ Blanks(LineStart(e), e)

\* C6 as stated: in a token stream that ran to Eof, every blank line of the
\* input has exactly one token, the Newline of its `\n`, and so no Indent or
\* Unindent that would change the recorded level.
C6_BlankLineAsStated ==
    (FirstFinal # 0 /\ IsEof(out[FirstFinal]))
    => \A e \in 0..(Len(input) - 1) :
           BlankLineAt(e)
           => LET ks == { k \in 1..FirstFinal :
                            /\ out[k].from[1] >= LineStart(e)
                            /\ out[k].from[1] <= e }
              IN  /\ Cardinality(ks) = 1
                  /\ \A k \in ks :
                         IsNewline(out[k]) /\ out[k].from[1] = e

\* C6 amended: a call that begins at column 0 on a blank line returns the
\* Newline of that line's `\n`, leaves the cursor at the start of the next
\* line, so that nothing else is emitted for the line, and leaves the
\* recorded level unchanged.
C6_BlankLine ==
    [][ \A e \in seek..(Len(input) - 1) :
            (column = 0 /\ Ch(e) = "\n" /\ Blanks(seek, e))
            => /\ Last(out')
                   = Token("Newline", <<>>, 0, <<e, line, e - seek>>,
                           <<e + 1, line, e - seek + 1>>)
               /\ Len(out') = Len(out) + 1
               /\ indent' = indent
               /\ seek' = e + 1
               /\ line' = line + 1
               /\ column' = 0 ]_vars

\* The Newline of a line of one or more blanks, met at a level above 0 that
\* differs from the number of blanks.
C6_Witness ==
    /\ out # <<>>
    /\ IsNewline(Last(out))
    /\ Last(out).from[3] > 0
    /\ Blanks(LineStart(Last(out).from[1]), Last(out).from[1])
    /\ indent > 0
    /\ indent # Last(out).from[3]

\* C7: once a call returned Eof, the next call returns the same Eof token
\* (same position) and changes nothing of the lexer, and so every later
\* call does.
C7_EofForever ==
    [][ (out # <<>> /\ IsEof(Last(out)))
        => /\ Last(out') = Last(out)
           /\ UNCHANGED <<iter, cursor, indent, seek, line, column>> ]_vars

\* Eof returned twice over an input that is not empty.
C7_Witness ==
    /\ Len(out) >= 3
    /\ IsEof(out[Len(out)])
    /\ IsEof(out[Len(out) - 1])

\* The number of tokens other than Eof among the first k results.
TokensBefore(k) ==
    Cardinality({ j \in 1..k : IsToken(out[j]) /\ ~IsEof(out[j]) })

\* The results before the first Eof, error or panic.
StreamLen == IF FirstFinal = 0 THEN Len(out) ELSE FirstFinal - 1

\* C8: a call that returns a token other than Indent, Unindent and Eof
\* advances the offset by at least one; a layout token that consumed no
\* blank is not followed by a layout token at the same offset; and so the
\* tokens returned before Eof, an error or an unimplemented path are
\* finitely many: at most two for each input character, and one.
C8_Terminates ==
    [][ /\ (IsPlain(Last(out')) /\ ~IsEof(Last(out')))
           => seek' >= seek + 1
        /\ (/\ out # <<>>
            /\ IsLayout(Last(out))
            /\ Last(out).to[1] = Last(out).from[1])
           => ~(/\ IsLayout(Last(out'))
                /\ Last(out').from[1] = Last(out).from[1])
        /\ TokensBefore(StreamLen)' <= 2 * Len(input) + 1 ]_vars

\* A zero-width Unindent followed by a token that advanced the offset.
C8_Witness ==
    /\ Len(out) >= 2
    /\ IsLayout(out[Len(out) - 1])
    /\ out[Len(out) - 1].to[1] = out[Len(out) - 1].from[1]
    /\ IsPlain(Last(out))
    /\ ~IsEof(Last(out))
    /\ seek > Last(out).from[1]

\* Results i < j are plain tokens with no plain token between them.
ConsecutivePlain(i, j) ==
    /\ i < j
    /\ IsPlain(out[i])
    /\ IsPlain(out[j])
    /\ \A m \in (i + 1)..(j - 1) : ~IsPlain(out[m])

\* A layout token ends where the token returned after it begins.
LayoutAbuts ==
    \A k \in 1..(Len(out) - 1) :
        (IsLayout(out[k]) /\ IsToken(out[k + 1]))
        => out[k].to[1] = out[k + 1].from[1]

\* C9 as stated: of two consecutive non-layout tokens the second begins at
\* or after the end of the first, and a layout token ends where the token
\* after it begins.
C9_PositionsAsStated ==
    /\ \A i, j \in 1..Len(out) :
           ConsecutivePlain(i, j) => out[j].from[1] >= out[i].to[1]
    /\ LayoutAbuts

\* C9 amended: of two consecutive non-layout tokens the first of which is
\* not Eof, the second begins at or after the end of the first; a layout
\* token ends where the token after it begins.
C9_Positions ==
    /\ \A i, j \in 1..Len(out) :
           (ConsecutivePlain(i, j) /\ ~IsEof(out[i]))
           => out[j].from[1] >= out[i].to[1]
    /\ LayoutAbuts

\* Two tokens apart by a blank, and a layout token before a token.
C9_Witness ==
    /\ \E i, j \in 1..Len(out) :
           /\ ConsecutivePlain(i, j)
           /\ ~IsEof(out[i])
           /\ ~IsEof(out[j])
           /\ out[j].from[1] > out[i].to[1]
    /\ \E k \in 1..(Len(out) - 1) :
           IsLayout(out[k]) /\ IsPlain(out[k + 1]) /\ ~IsEof(out[k + 1])

\* The offset after the maximal run of digits that begins at offset i.
RECURSIVE DigitRunEnd(_)
DigitRunEnd(i) == IF is_digit(Ch(i)) THEN DigitRunEnd(i + 1) ELSE i

\* Result k was dispatched on a digit that is not the `0` of `0x`.
StartsOnDigit(k) ==
    /\ out[k].kind # "Panic"
    /\ ~IsLayout(out[k])
    /\ out[k].lexeme # "UnexpectedEof"
    /\ is_digit(Ch(out[k].from[1]))
    /\ ~(Ch(out[k].from[1]) = "0" /\ Ch(out[k].from[1] + 1) = "x")

\* C10: a token that starts on a digit and reads digits, `.`, digits is
\* Float with exactly those characters as text; InvalidInteger is returned
\* only when the `.` is not followed by a digit.
C10_FloatText ==
    \A k \in 1..Len(out) :
        StartsOnDigit(k)
        => LET f == out[k].from[1]
               d == DigitRunEnd(f)
           IN  /\ (Ch(d) = "." /\ is_digit(Ch(d + 1)))
                  => /\ IsToken(out[k])
                     /\ out[k].lexeme = "Float"
                     /\ out[k].text = SubSeq(input, f + 1, DigitRunEnd(d + 1))
               /\ out[k].lexeme = "InvalidInteger"
                  => (Ch(d) = "." /\ ~is_digit(Ch(d + 1)))

\* The offset after the maximal run of hex digits that begins at offset i.
RECURSIVE HexRunEnd(_)
HexRunEnd(i) == IF is_hex_digit(Ch(i)) THEN HexRunEnd(i + 1) ELSE i

\* Offset f holds `0x`, one or more hex digits, and then a blank, a `\n` or
\* the end of input.
HexLiteralAt(f) ==
    /\ Ch(f) = "0"
    /\ Ch(f + 1) = "x"
    /\ HexRunEnd(f + 2) > f + 2
    /\ Ch(HexRunEnd(f + 2)) \in {" ", "\t", "\n", None}

\* C11: a token that starts on `0x` followed by a terminated run of hex
\* digits is Integer with `0x` and every hex digit of the run as text, and
\* no unimplemented path is reached inside such a literal.
C11_HexText ==
    \A k \in 1..Len(out) :
        /\ (/\ out[k].kind # "Panic"
            /\ ~IsLayout(out[k])
            /\ HexLiteralAt(out[k].from[1]))
           => /\ IsToken(out[k])
              /\ out[k].lexeme = "Integer"
              /\ out[k].text = SubSeq(input, out[k].from[1] + 1,
                                      HexRunEnd(out[k].from[1] + 2))
        /\ out[k].kind = "Panic"
           => ~\E f \in 0..Len(input) :
                  /\ HexLiteralAt(f)
                  /\ f + 2 <= out[k].from[1]
                  /\ out[k].from[1] <= HexRunEnd(f + 2)

\* The offset after the maximal run of letters and digits that begins at
\* offset i.
RECURSIVE WordRunEnd(_)
WordRunEnd(i) ==
    IF is_letter(Ch(i)) \/ is_digit(Ch(i)) THEN WordRunEnd(i + 1) ELSE i

\* Result k is what a call returned for the token that begins at its from
\* offset (not a layout token, not a panic, not the end of a string).
Begins(k) ==
    /\ out[k].kind # "Panic"
    /\ ~IsLayout(out[k])
    /\ out[k].lexeme # "UnexpectedEof"

\* The source text of the offsets a..b-1.
Source(a, b) == SubSeq(input, a + 1, b)

\* C12: a token that starts on `_` is scanned as a word: a standalone `_`
\* is Underscore, and `_` followed by letters/digits (and no `[`) is one
\* Word whose text begins with the `_`.
C12_UnderscoreIsWord ==
    \A k \in 1..Len(out) :
        (Begins(k) /\ Ch(out[k].from[1]) = "_")
        => LET f == out[k].from[1]
               e == WordRunEnd(f)
           IN  /\ IsToken(out[k])
               /\ (e = f + 1 /\ Ch(e) # "[")
                  => out[k].lexeme = "Underscore"
               /\ (e > f + 1 /\ Ch(e) # "[")
                  => /\ out[k].lexeme = "Word"
                     /\ out[k].text = Source(f, e)

\* C13: a token that starts on a digit and is a run of digits followed at
\* once by `[` is Mword with the digits as text; it consumes the `[`, and no
\* Lbracket token is returned for that `[`.
C13_DigitsMword ==
    \A k \in 1..Len(out) :
        (/\ StartsOnDigit(k)
         /\ Ch(DigitRunEnd(out[k].from[1])) = "[")
        => LET f == out[k].from[1]
               d == DigitRunEnd(f)
           IN  /\ IsToken(out[k])
               /\ out[k].lexeme = "Mword"
               /\ out[k].text = Source(f, d)
               /\ out[k].to[1] = d + 1
               /\ \A j \in 1..Len(out) :
                      ~(/\ IsToken(out[j])
                        /\ out[j].lexeme = "Lbracket"
                        /\ out[j].from[1] = d)

\* C14: a token that starts on a digit and has a letter after its leading
\* digits is Word or Mword with exactly the source text of the maximal run
\* of letters/digits from its first digit; it is Mword exactly when `[`
\* follows the run.
C14_DigitWordText ==
    \A k \in 1..Len(out) :
        (/\ StartsOnDigit(k)
         /\ is_letter(Ch(DigitRunEnd(out[k].from[1]))))
        => LET f == out[k].from[1]
               e == WordRunEnd(f)
           IN  /\ IsToken(out[k])
               /\ out[k].lexeme \in {"Word", "Mword"}
               /\ out[k].text = Source(f, e)
               /\ out[k].lexeme = "Mword" <=> Ch(e) = "["

\* Result k begins on a letter that is neither the `T` of `T[` nor a `_`
\* that stands alone (the Underscore lexeme).
StartsOnLetter(k) ==
    /\ Begins(k)
    /\ is_letter(Ch(out[k].from[1]))
    /\ ~(Ch(out[k].from[1]) = "T" /\ Ch(out[k].from[1] + 1) = "[")
    /\ ~(Ch(out[k].from[1]) = "_"
         /\ WordRunEnd(out[k].from[1]) = out[k].from[1] + 1)

\* C15: an identifier that begins on a letter and runs over the maximal run
\* of letters/digits is Mword exactly when `[` follows the run, and then
\* the `[` is consumed and gets no Lbracket; otherwise it is Keyword when
\* its text is a keyword and Word when not; no Word or Keyword is followed
\* at once by `[` in the source.
C15_MwordTrigger ==
    /\ \A k \in 1..Len(out) :
           StartsOnLetter(k)
           => LET f == out[k].from[1]
                  e == WordRunEnd(f)
                  text == Source(f, e)
              IN  /\ IsToken(out[k])
                  /\ out[k].text = text
                  /\ out[k].lexeme
                         = IF Ch(e) = "[" THEN "Mword"
                           ELSE IF is_keyword(text) THEN "Keyword"
                           ELSE "Word"
                  /\ Ch(e) = "["
                     => /\ out[k].to[1] = e + 1
                        /\ \A j \in 1..Len(out) :
                               ~(/\ IsToken(out[j])
                                 /\ out[j].lexeme = "Lbracket"
                                 /\ out[j].from[1] = e)
    /\ \A k \in 1..Len(out) :
           (IsToken(out[k]) /\ out[k].lexeme \in {"Word", "Keyword"})
           => Ch(out[k].to[1]) # "["

\* The offset after the run of spaces and tabs that begins at offset i.
RECURSIVE BlankRunEnd(_)
BlankRunEnd(i) == IF is_whitespace(Ch(i)) THEN BlankRunEnd(i + 1) ELSE i

\* The string literal read from the source, left to right from offset i
\* (the offset after the opening quote): `\"` stands for `"`, `\\` for `\`,
\* every other character for itself, up to the first quote that is not
\* part of an escape.
RECURSIVE Literal(_, _)
Literal(i, text) ==
    IF Ch(i) = None THEN [closed |-> FALSE, end |-> i, text |-> text]
    ELSE IF Ch(i) = "\\" /\ Ch(i + 1) \in {"\"", "\\"}
    THEN Literal(i + 2, Append(text, Ch(i + 1)))
    ELSE IF Ch(i) = "\""
    THEN [closed |-> TRUE, end |-> i, text |-> text]
    ELSE Literal(i + 1, Append(text, Ch(i)))

\* C16: a call whose token starts on `"` returns String, ending at the
\* first quote that is not the second character of a `\"` escape, with the
\* source between the quotes as payload, `\"` replaced by `"` and `\\` by
\* `\` and all else (a `\n` too) copied; when the input ends before a
\* closing quote it returns UnexpectedEof.
C16_StringPayload ==
    [][ LET f   == BlankRunEnd(seek)
            lit == Literal(f + 1, <<>>)
            r   == Last(out')
        IN  (Ch(f) = "\"" /\ ~IsLayout(r))
            => IF lit.closed
               THEN /\ IsToken(r)
                    /\ r.lexeme = "String"
                    /\ r.text = lit.text
                    /\ r.from[1] = f
                    /\ r.to[1] = lit.end + 1
                    /\ seek' = lit.end + 1
               ELSE /\ r.kind = "Err"
                    /\ r.lexeme = "UnexpectedEof" ]_vars

\* A String whose payload holds a decoded quote and a newline.
C16_Witness ==
    /\ out # <<>>
    /\ IsToken(Last(out))
    /\ Last(out).lexeme = "String"
    /\ \E i, j \in 1..Len(Last(out).text) :
           Last(out).text[i] = "\"" /\ Last(out).text[j] = "\n"

\* The (offset, line, column) triple of the input character at offset i.
PointAt(i) ==
    <<i, Cardinality({ j \in 0..(i - 1) : Ch(j) = "\n" }), i - LineStart(i)>>

\* Token t spans n source characters of one line from offset f on.
Spans(t, f, n) ==
    /\ t.from = PointAt(f)
    /\ t.to[1] - t.from[1] = n
    /\ t.to[3] - t.from[3] = n

\* C17: the from triple of a Word, a Keyword and a single-line String is
\* the (offset, line, column) of its first source character, and its width
\* in columns and in offsets is its number of source characters, both
\* quotes of a String included; an Indent/Unindent starts at column 0 and
\* is as wide as the leading blanks of its line.
C17_Spans ==
    \A k \in 1..Len(out) :
        LET t == out[k]
            f == t.from[1]
        IN  /\ (IsToken(t) /\ t.lexeme \in {"Word", "Keyword"})
               => Spans(t, f, WordRunEnd(f) - f)
            /\ (/\ IsToken(t)
                /\ t.lexeme = "String"
                /\ \A i \in 1..Len(t.text) : t.text[i] # "\n")
               => /\ Ch(f) = "\""
                  /\ Literal(f + 1, <<>>).closed
                  /\ Spans(t, f, Literal(f + 1, <<>>).end + 1 - f)
            /\ IsLayout(t)
               => /\ f = LineStart(f)
                  /\ t.from[3] = 0
                  /\ Spans(t, f, BlankRunEnd(f) - f)

\* On a later line, an Indent and after it a Keyword, Word or String of two
\* or more characters.
C17_Witness ==
    \E k \in 1..(Len(out) - 1) :
        /\ IsLayout(out[k])
        /\ out[k].from[2] >= 1
        /\ out[k].to[3] >= 1
        /\ IsToken(out[k + 1])
        /\ out[k + 1].lexeme \in {"Word", "Keyword", "String"}
        /\ out[k + 1].to[2] = out[k + 1].from[2]
        /\ out[k + 1].to[3] - out[k + 1].from[3] >= 2

\* C18: no two layout tokens are returned by consecutive calls, also after
\* a layout token that consumed no blank, and no input line gets more than
\* one layout token.
C18_OneLayoutPerLine ==
    /\ \A k \in 1..(Len(out) - 1) :
           IsLayout(out[k]) => ~IsLayout(out[k + 1])
    /\ \A i, j \in 1..Len(out) :
           (/\ i < j
            /\ IsLayout(out[i])
            /\ IsLayout(out[j]))
           => LineStart(out[i].from[1]) # LineStart(out[j].from[1])

\* An Unindent that consumed no blank, with a word returned after it, in a
\* stream that holds another layout token.
C18_Witness ==
    \E k \in 2..(Len(out) - 1) :
        /\ IsLayout(out[k])
        /\ out[k].to[1] = out[k].from[1]
        /\ column > 0
        /\ IsToken(out[k + 1])
        /\ out[k + 1].lexeme = "Word"
        /\ \E i \in 1..(k - 1) : IsLayout(out[i])

\* C19: after s shift operations the offset is s, the line is the number of
\* `\n` among the first s input characters, the column is the number of
\* shifts since the last `\n` was shifted out (since the start if none),
\* and the cursor holds the input characters at s and s + 1, a slot being
\* absent exactly at and past the end of the input; so the column is 0
\* only at the start or right after a `\n` was shifted out.
C19_ShiftCounters ==
    /\ seek = shifts
    /\ line = Cardinality({ j \in 0..(shifts - 1) : Ch(j) = "\n" })
    /\ column = shifts - LineStart(shifts)
    /\ cursor[1] = (IF shifts < Len(input) THEN input[shifts + 1] ELSE None)
    /\ cursor[2]
           = (IF shifts + 1 < Len(input) THEN input[shifts + 2] ELSE None)
    /\ \A i \in 1..2 : cursor[i] = None <=> shifts + i - 1 >= Len(input)
    /\ column = 0 => (shifts = 0 \/ Ch(shifts - 1) = "\n")

\* Shifted past the end of an input of several lines.
C19_Witness ==
    /\ shifts > Len(input)
    /\ line >= 2
    /\ column >= 2
    /\ cursor = <<None, None>>

\* A character that no arm of the dispatcher takes.
IsMysterious(c) ==
    /\ c # None
    /\ c \notin {"[", "]", "{", "}", "(", ")", "\n", "\"", "'"}
    /\ ~is_special(c)
    /\ ~is_letter(c)
    /\ ~is_digit(c)

IsMysteriousChar(r) == r.kind = "Err" /\ r.lexeme = "MysteriousChar"

\* C20: a call that returns MysteriousChar leaves the offending character
\* as the current one and reports the one-character span at the current
\* offset; the call after a MysteriousChar returns the same error with
\* the same position and changes nothing of the lexer, so no token past
\* that point is ever returned.
C20_MysteriousCharSticks ==
    [][ /\ IsMysteriousChar(Last(out'))
           => /\ Last(out').from = <<seek', line', column'>>
              /\ Last(out').to = <<seek' + 1, line', column' + 1>>
              /\ cursor'[1] = Ch(seek')
              /\ IsMysterious(Ch(seek'))
        /\ (out # <<>> /\ IsMysteriousChar(Last(out)))
           => /\ Last(out') = Last(out)
              /\ UNCHANGED <<iter, cursor, indent, seek, line, column>> ]_vars

\* MysteriousChar twice, on an indented later line.
C20_Witness ==
    /\ Len(out) >= 3
    /\ IsMysteriousChar(out[Len(out)])
    /\ IsMysteriousChar(out[Len(out) - 1])
    /\ line >= 1
    /\ column >= 1
    /\ indent >= 1

====
